---- MODULE Spec2Model ----
(***************************************************************************)
(* Model of the scan-and-remediate pipeline of src/main.py (clone_repo,    *)
(* run_sast_tool, get_llm_suggestion, print_results, main) and of the      *)
(* POST /generate handler of src/remote_LLM.py (generate_text).            *)
(*                                                                         *)
(* Text is modelled as a sequence of characters over a two-letter          *)
(* alphabet (a blank and a non-blank), so that str.strip() and string      *)
(* concatenation are computed, not assumed.  Python's None is the record   *)
(* field isNone; a log is the sequence of logging calls, each reduced to   *)
(* its kind and the values it formats (elapsed times are left out).        *)
(***************************************************************************)
EXTENDS Integers, Sequences, FiniteSets, TLC

(* ---------------------------------------------------------------- bounds *)

\* longest text (suggestion, prompt, continuation) an input may carry
MaxTextLen == 2
\* most findings a tool's output document may list
MaxFindings == 2

(* ------------------------------------------------------------------ text *)

Char == {" ", "x"}

RECURSIVE SeqsUpTo(_, _)
SeqsUpTo(S, n) ==
    IF n = 0 THEN {<<>>}
    ELSE LET shorter == SeqsUpTo(S, n - 1)
         IN  shorter \cup {Append(s, c) : s \in shorter, c \in S}

Texts == SeqsUpTo(Char, MaxTextLen)

RECURSIVE LStrip(_)
LStrip(s) ==
    IF s = <<>> THEN s
    ELSE IF Head(s) = " " THEN LStrip(Tail(s)) ELSE s

RECURSIVE RStrip(_)
RStrip(s) ==
    IF s = <<>> THEN s
    ELSE IF s[Len(s)] = " " THEN RStrip(SubSeq(s, 1, Len(s) - 1)) ELSE s

\* str.strip()
Strip(s) == RStrip(LStrip(s))

(* -------------------------------------------------------------- findings *)

\* a key the finding's dict does not hold
Absent == "<absent>"

\* dict.get(key, default)
Get(f, key, default) == IF f[key] = Absent THEN default ELSE f[key]

FindingA ==
    [issue_severity |-> "HIGH", issue_text |-> "hardcoded password",
     filename |-> "app.py", line_number |-> "42"]

\* a file-level finding of a tool that reports neither severity nor line
FindingB ==
    [issue_severity |-> Absent, issue_text |-> "eval used",
     filename |-> "b.py", line_number |-> Absent]

FindingUniverse == {FindingA, FindingB}

FindingLists == SeqsUpTo(FindingUniverse, MaxFindings)

(* ------------------------------------------------- decoded JSON documents *)

\* Python's None, as run_sast_tool returns it and as json.load gives for null
NoneValue == [isNone |-> TRUE, keys |-> {}, results |-> <<>>]

\* a JSON object with the given top-level keys; results is the 'results' list
Obj(keys, results) == [isNone |-> FALSE, keys |-> keys, results |-> results]

Docs ==
    {NoneValue, Obj({}, <<>>), Obj({"errors"}, <<>>)}
    \cup {Obj({"results"}, fs) : fs \in FindingLists}
    \cup {Obj({"results", "errors"}, fs) : fs \in FindingLists}

\* bool(results): None and the empty dict are falsy
Truthy(d) == ~d.isNone /\ d.keys # {}

\* the output file after the child process exited
Artifacts ==
    {[exists |-> FALSE, wellformed |-> FALSE, doc |-> NoneValue],
     [exists |-> TRUE, wellformed |-> FALSE, doc |-> NoneValue]}
    \cup {[exists |-> TRUE, wellformed |-> TRUE, doc |-> d] : d \in Docs}

(* ------------------------------------------------------------------- log *)

Line(kind, a, b, t) == [kind |-> kind, a |-> a, b |-> b, t |-> t]

\* the text print_results logs when there is no suggestion
NoSuggestion == <<"No suggestion available.">>

(* ----------------------------------------------------------- clone_repo *)

CloneOutcomes == {"ok", "GitCommandError", "OtherError"}

\* the lines clone_repo logs
CloneLines(outcome) ==
    <<Line("Cloning", "", "", <<>>)>>
    \o (IF outcome = "ok" THEN <<Line("CloneOK", "", "", <<>>)>>
        ELSE IF outcome = "GitCommandError"
             THEN <<Line("CloneError", "", "", <<>>)>>
             ELSE <<>>)

(* -------------------------------------------------------- run_sast_tool *)

ToolNames == {"bandit", "semgrep", "flake8"}

\* a commands table that has an entry for every name
MutCommands == ToolNames

\* the keys of the commands table
Commands == {"bandit", "semgrep"}

ExitCodes == {0, 1, 2}

\* subprocess.run(..., check=True): CalledProcessError on a non-zero exit
MutRunRaises(exit) == exit # 0

\* subprocess.run(..., check=False) never raises on the exit status
RunRaises(exit) == FALSE

\* json.load of the opened file: the value, or raises
JsonLoadRaises(art) == ~art.wellformed
JsonLoad(art) == art.doc

\* run_sast_tool(tool_name, repo_path, output_file) in an environment where
\* the executable is installed or not, the child exits with exit, and the
\* output file is art afterwards: the value returned, the return taken, the
\* number of subprocess.run calls, and the lines logged
RunSastTool(tool_name, installed, exit, art) ==
    LET running == <<Line("Running", tool_name, "", <<>>)>>
        completed == <<Line("ScanCompleted", tool_name, "", <<>>)>>
    IN  IF tool_name \notin Commands
        THEN [ret |-> NoneValue, via |-> "unsupported", spawned |-> 0,
              lines |-> running \o <<Line("Unsupported", tool_name, "", <<>>)>>]
        ELSE IF ~installed
        THEN [ret |-> NoneValue, via |-> "tool_missing", spawned |-> 1,
              lines |-> running \o <<Line("ToolNotFound", tool_name, "", <<>>)>>]
        ELSE IF RunRaises(exit)
        THEN [ret |-> NoneValue, via |-> "error", spawned |-> 1,
              lines |-> running \o <<Line("ErrorRunning", tool_name, "", <<>>)>>]
        ELSE IF ~art.exists
        THEN [ret |-> NoneValue, via |-> "fallthrough", spawned |-> 1,
              lines |-> running \o completed]
        ELSE IF JsonLoadRaises(art)
        THEN [ret |-> NoneValue, via |-> "error", spawned |-> 1,
              lines |-> running \o completed
                        \o <<Line("ErrorRunning", tool_name, "", <<>>)>>]
        ELSE [ret |-> JsonLoad(art), via |-> "loaded", spawned |-> 1,
              lines |-> running \o completed]

(* -------------------------------------------------- get_llm_suggestion *)

\* the prompt built from the finding (the fixed instruction text left out)
Prompt(finding) ==
    [issue_text |-> Get(finding, "issue_text", "N/A"),
     filename |-> Get(finding, "filename", "N/A"),
     line_number |-> Get(finding, "line_number", "N/A")]

\* what the body of an HTTP response is: not JSON at all, JSON that is no
\* object, an object without generated_text, an object whose generated_text
\* is no string (null, a number), or an object with generated_text = text
Bodies ==
    {[form |-> f, text |-> <<>>] :
        f \in {"notjson", "nonobject", "nokey", "nonstring"}}
    \cup {[form |-> "text", text |-> t] : t \in Texts}

StatusCodes == {200, 201, 503}

\* what requests.post comes back with: a response, or an exception raised
\* at the transport level (connection refused, reset, ...)
Responses ==
    {[kind |-> "transport", status |-> 0, body |-> [form |-> "notjson", text |-> <<>>]]}
    \cup {[kind |-> "http", status |-> st, body |-> b] :
            st \in StatusCodes, b \in Bodies}

NoResponse == [kind |-> "none", status |-> 0, body |-> [form |-> "notjson", text |-> <<>>]]

\* a test that takes any 2xx status (response.ok)
MutStatusOk(status) == status >= 200 /\ status < 300

\* response.status_code == 200
StatusOk(status) == status = 200

\* response.json().get("generated_text", "").strip() raises: the body is no
\* JSON, the JSON value has no get, or the value got has no strip
BodyRaises(body) == body.form \in {"notjson", "nonobject", "nonstring"}

\* response.json().get("generated_text", "").strip()
BodyText(body) == IF body.form = "nokey" THEN <<>> ELSE Strip(body.text)

\* a get_llm_suggestion without its except clause
MutCatchesAll == FALSE

\* whether an exception raised inside get_llm_suggestion is caught there
CatchesAll == TRUE

\* get_llm_suggestion(finding), given what requests.post came back with:
\* the value returned (None or a text), the line logged, and whether an
\* exception leaves the function
GetLlmSuggestion(resp) ==
    LET raised == resp.kind = "transport"
                  \/ (StatusOk(resp.status) /\ BodyRaises(resp.body))
    IN  IF raised
        THEN [isNone |-> TRUE, text |-> <<>>, escapes |-> ~CatchesAll,
              lines |-> IF CatchesAll
                        THEN <<Line("LLMException", "", "", <<>>)>> ELSE <<>>]
        ELSE IF StatusOk(resp.status)
        THEN [isNone |-> FALSE, text |-> BodyText(resp.body), escapes |-> FALSE,
              lines |-> <<Line("LLMGenerated", "", "", <<>>)>>]
        ELSE [isNone |-> TRUE, text |-> <<>>, escapes |-> FALSE,
              lines |-> <<Line("LLMError", "", "", <<>>)>>]

(* --------------------------------------------------------- print_results *)

\* the three lines logged for a finding before its suggestion is asked for
FindingLines(finding) ==
    <<Line("Severity", Get(finding, "issue_severity", "N/A"), "", <<>>),
      Line("Issue", Get(finding, "issue_text", "N/A"), "", <<>>),
      Line("File", Get(finding, "filename", "N/A"),
           Get(finding, "line_number", "N/A"), <<>>)>>

\* suggestion.strip() if suggestion else 'No suggestion available.'
SuggestionText(sugg) ==
    IF ~sugg.isNone /\ sugg.text # <<>> THEN Strip(sugg.text) ELSE NoSuggestion

SuggestionLine(sugg) == Line("Suggestion", "", "", SuggestionText(sugg))

\* a loop over reversed(results['results'])
MutNextFinding(fs, i) == fs[Len(fs) - i]

\* the finding the loop takes after i findings were handled
NextFinding(fs, i) == fs[i + 1]

\* results and 'results' in results
HasResults(d) == Truthy(d) /\ "results" \in d.keys

\* the lines print_results logs before its loop, or instead of it
PrintResultsHead(tool_name, d) ==
    IF HasResults(d) THEN <<Line("Header", tool_name, "", <<>>)>>
    ELSE <<Line("NoResults", tool_name, "", <<>>)>>

(* ------------------------------------------------------------------ main *)

\* choices of the --tool argument
ArgChoices == {"bandit", "semgrep"}

\* a main that does not test what clone_repo returned
MutAfterClone(outcome) == IF outcome = "OtherError" THEN "crashed" ELSE "sast"

\* where main goes after clone_repo: on, out by return, or out by an
\* exception clone_repo does not catch
AfterClone(outcome) ==
    IF outcome = "ok" THEN "sast"
    ELSE IF outcome = "GitCommandError" THEN "done" ELSE "crashed"

\* what the scan's environment can be: the executable missing (no child
\* runs, exit is -1), or a child that exits with a code and leaves the
\* output file in some state
ScanEnvs ==
    {[installed |-> FALSE, exit |-> -1,
      art |-> [exists |-> FALSE, wellformed |-> FALSE, doc |-> NoneValue]]}
    \cup {[installed |-> TRUE, exit |-> e, art |-> a] :
            e \in ExitCodes, a \in Artifacts}

NoEnv ==
    [installed |-> FALSE, exit |-> -1,
     art |-> [exists |-> FALSE, wellformed |-> FALSE, doc |-> NoneValue]]

(* -------------------------------------------------- generate_text (service) *)

\* what the backend's answer body is, read as response.json().get("response", "")
BackendBodies ==
    {[form |-> f, text |-> <<>>] :
        f \in {"notjson", "nonobject", "nokey", "nonstring"}}
    \cup {[form |-> "text", text |-> t] : t \in Texts}

BackendStatusCodes == {200, 404, 500}

\* what requests.post to the backend comes back with
BackendOutcomes ==
    {[kind |-> k, status |-> 0, body |-> [form |-> "notjson", text |-> <<>>]] :
        k \in {"ConnectionError", "Timeout"}}
    \cup {[kind |-> "http", status |-> st, body |-> b] :
            st \in BackendStatusCodes, b \in BackendBodies}

NoOutcome == [kind |-> "none", status |-> 0, body |-> [form |-> "notjson", text |-> <<>>]]

HttpError(status, detail) ==
    [status |-> status, detail |-> detail, generated_text |-> <<>>]

HttpOk(text) == [status |-> 200, detail |-> "", generated_text |-> text]

NoHttp == [status |-> 0, detail |-> "", generated_text |-> <<>>]

\* generate_text(request), given what the backend call came back with.
\* jsonIsRequestError: whether the JSON decode error response.json() raises
\* is a requests.RequestException (it is from requests 2.27 on, and a plain
\* ValueError before); the repository pins no version.
GenerateText(prompt, outcome, jsonIsRequestError) ==
    IF outcome.kind \in {"ConnectionError", "Timeout"}
    THEN HttpError(503, "Ollama service unavailable")
    ELSE IF outcome.status # 200
    \* the HTTPException(500) raised in the try block is caught by the
    \* handler's own except Exception and raised again as a 500
    THEN HttpError(500, "Internal server error")
    ELSE IF outcome.body.form = "notjson"
    THEN IF jsonIsRequestError
         THEN HttpError(503, "Ollama service unavailable")
         ELSE HttpError(500, "Internal server error")
    ELSE IF outcome.body.form \in {"nonobject", "nonstring"}
    THEN HttpError(500, "Internal server error")
    ELSE IF outcome.body.form = "nokey"
    THEN HttpOk(prompt)
    ELSE HttpOk(prompt \o outcome.body.text)

(* ----------------------------------------------------------------- state *)

VARIABLES
    entry,          \* "main": the program is run; "call": run_sast_tool is called directly
    tool,           \* the tool name given
    pc,             \* where the control is
    cloneResult,    \* how git.Repo.clone_from ended ("none" before)
    cloneAttempts,  \* calls of git.Repo.clone_from
    env,            \* the environment the scan met (NoEnv before)
    results,        \* the value run_sast_tool returned
    via,            \* the return run_sast_tool took ("none" before)
    spawned,        \* calls of subprocess.run
    i,              \* findings print_results is done with
    resp,           \* what the last requests.post came back with
    requests,       \* the prompts posted to REMOTE_MODEL_URL, in order
    log,            \* the lines logged, in order
    svcPc,          \* service: "idle", "backend_wait", "responded"
    svcPrompt,      \* service: request.prompt
    svcOutcome,     \* service: what the backend call came back with
    svcResp,        \* service: the HTTP response given
    svcJsonIsRequestError  \* service: the installed requests' JSON error class

pipeVars ==
    <<entry, tool, pc, cloneResult, cloneAttempts, env, results, via, spawned,
      i, resp, requests, log>>

svcVars == <<svcPc, svcPrompt, svcOutcome, svcResp, svcJsonIsRequestError>>

vars == <<pipeVars, svcVars>>

PipeInit ==
    /\ entry \in {"main", "call"}
    /\ tool \in ToolNames
    /\ pc = IF entry = "main" THEN "parse" ELSE "sast"
    /\ cloneResult = "none"
    /\ cloneAttempts = 0
    /\ env = NoEnv
    /\ results = NoneValue
    /\ via = "none"
    /\ spawned = 0
    /\ i = 0
    /\ resp = NoResponse
    /\ requests = <<>>
    /\ log = <<>>

PipeIdle ==
    /\ entry = "main"
    /\ tool = "bandit"
    /\ pc = "off"
    /\ cloneResult = "none"
    /\ cloneAttempts = 0
    /\ env = NoEnv
    /\ results = NoneValue
    /\ via = "none"
    /\ spawned = 0
    /\ i = 0
    /\ resp = NoResponse
    /\ requests = <<>>
    /\ log = <<>>

SvcInit ==
    /\ svcPc = "idle"
    /\ svcPrompt = <<>>
    /\ svcOutcome = NoOutcome
    /\ svcResp = NoHttp
    /\ svcJsonIsRequestError \in BOOLEAN

SvcIdle ==
    /\ svcPc = "off"
    /\ svcPrompt = <<>>
    /\ svcOutcome = NoOutcome
    /\ svcResp = NoHttp
    /\ svcJsonIsRequestError = TRUE

(* -------------------------------------------------------------- pipeline *)

\* main, line 129: argparse rejects a tool outside the choices
ParseArgs ==
    /\ pc = "parse"
    /\ pc' = IF tool \in ArgChoices THEN "clone" ELSE "usage_error"
    /\ UNCHANGED <<entry, tool, cloneResult, cloneAttempts, env, results, via,
                   spawned, i, resp, requests, log, svcVars>>

\* main, lines 131-133, with clone_repo
CloneRepo ==
    /\ pc = "clone"
    /\ \E outcome \in CloneOutcomes :
        /\ cloneResult' = outcome
        /\ log' = log \o CloneLines(outcome)
        /\ pc' = AfterClone(outcome)
    /\ cloneAttempts' = cloneAttempts + 1
    /\ UNCHANGED <<entry, tool, env, results, via, spawned, i, resp, requests,
                   svcVars>>

\* main, lines 135-140, with run_sast_tool and print_results up to its loop
MainScan ==
    /\ pc = "sast"
    /\ entry = "main"
    /\ \E e \in ScanEnvs :
        LET r == RunSastTool(tool, e.installed, e.exit, e.art)
        IN  /\ env' = e
            /\ results' = r.ret
            /\ via' = r.via
            /\ spawned' = spawned + r.spawned
            /\ IF Truthy(r.ret)
               THEN /\ log' = log \o r.lines \o PrintResultsHead(tool, r.ret)
                    /\ pc' = IF HasResults(r.ret) /\ Len(r.ret.results) > 0
                             THEN "loop" ELSE "done"
               ELSE /\ log' = log \o r.lines
                                  \o <<Line("NoFindingsDetected", "", "", <<>>)>>
                    /\ pc' = "done"
    /\ UNCHANGED <<entry, tool, cloneResult, cloneAttempts, i, resp, requests,
                   svcVars>>

\* run_sast_tool called on its own, with any tool name
CallRunSastTool ==
    /\ pc = "sast"
    /\ entry = "call"
    /\ \E e \in ScanEnvs :
        LET r == RunSastTool(tool, e.installed, e.exit, e.art)
        IN  /\ env' = e
            /\ results' = r.ret
            /\ via' = r.via
            /\ spawned' = spawned + r.spawned
            /\ log' = log \o r.lines
    /\ pc' = "returned"
    /\ UNCHANGED <<entry, tool, cloneResult, cloneAttempts, i, resp, requests,
                   svcVars>>

\* print_results, lines 115-119, and get_llm_suggestion down to requests.post
PostRequest ==
    /\ pc = "loop"
    /\ LET finding == NextFinding(results.results, i)
       IN  /\ log' = log \o FindingLines(finding)
           /\ requests' = Append(requests, Prompt(finding))
    /\ pc' = "llm_wait"
    /\ UNCHANGED <<entry, tool, cloneResult, cloneAttempts, env, results, via,
                   spawned, i, resp, svcVars>>

\* requests.post comes back: the rest of get_llm_suggestion, line 120 of
\* print_results, and the loop's step
ServiceAnswers ==
    /\ pc = "llm_wait"
    /\ \E r \in Responses :
        LET s == GetLlmSuggestion(r)
        IN  /\ resp' = r
            /\ IF s.escapes
               THEN /\ log' = log \o s.lines
                    /\ i' = i
                    /\ pc' = "crashed"
               ELSE /\ log' = log \o s.lines \o <<SuggestionLine(s)>>
                    /\ i' = i + 1
                    /\ pc' = IF i + 1 = Len(results.results) THEN "done" ELSE "loop"
    /\ UNCHANGED <<entry, tool, cloneResult, cloneAttempts, env, results, via,
                   spawned, requests, svcVars>>

\* the steps the program takes by itself
ProgramStep ==
    ParseArgs \/ CloneRepo \/ MainScan \/ CallRunSastTool \/ PostRequest

Init == PipeInit /\ SvcIdle

Next ==
    \/ ParseArgs
    \/ CloneRepo
    \/ MainScan
    \/ CallRunSastTool
    \/ PostRequest
    \/ ServiceAnswers

Spec == Init /\ [][Next]_vars

\* the program's own steps are taken; nothing makes the service answer
FairSpec == Init /\ [][Next]_vars /\ WF_vars(ProgramStep)

(* --------------------------------------------------------------- service *)

\* a POST /generate arrives: generate_text down to requests.post
SvcReceive ==
    /\ svcPc = "idle"
    /\ \E p \in Texts : svcPrompt' = p
    /\ svcPc' = "backend_wait"
    /\ svcOutcome' = NoOutcome
    /\ svcResp' = NoHttp
    /\ UNCHANGED <<svcJsonIsRequestError, pipeVars>>

\* the backend call comes back (or times out): the rest of generate_text
SvcBackendReturns ==
    /\ svcPc = "backend_wait"
    /\ \E o \in BackendOutcomes :
        /\ svcOutcome' = o
        /\ svcResp' = GenerateText(svcPrompt, o, svcJsonIsRequestError)
    /\ svcPc' = "responded"
    /\ UNCHANGED <<svcPrompt, svcJsonIsRequestError, pipeVars>>

\* the response is sent and the service waits for the next request
SvcNextRequest ==
    /\ svcPc = "responded"
    /\ svcPc' = "idle"
    /\ UNCHANGED <<svcPrompt, svcOutcome, svcResp, svcJsonIsRequestError, pipeVars>>

ServiceInit == PipeIdle /\ SvcInit

ServiceNext ==
    \/ SvcReceive
    \/ SvcBackendReturns
    \/ SvcNextRequest

ServiceSpec == ServiceInit /\ [][ServiceNext]_vars

(* -------------------------------------------------------- reading the log *)

Last(s) == s[Len(s)]

\* where the report's header is in the log; 0 when there is none
HeaderIndex ==
    IF \E k \in 1..Len(log) : log[k].kind = "Header"
    THEN CHOOSE k \in 1..Len(log) : log[k].kind = "Header"
    ELSE 0

\* the lines logged after the header
ReportBody == SubSeq(log, HeaderIndex + 1, Len(log))

\* the five lines of the k-th reported finding: severity, issue, file,
\* the line get_llm_suggestion logs, and the suggestion
Block(k) == SubSeq(ReportBody, 5 * (k - 1) + 1, 5 * k)

Unavailable == Line("Suggestion", "", "", NoSuggestion)

\* the remediation call failed: no response, a status other than 200, or a
\* body that is no JSON object with a string generated_text
Failed(r) ==
    \/ r.kind = "transport"
    \/ r.kind = "http" /\ r.status # 200
    \/ r.kind = "http" /\ r.body.form \in {"notjson", "nonobject", "nonstring"}

ScanFailed == via \in {"unsupported", "tool_missing", "error", "fallthrough"}

(* ---------------------------------------------------------------- claims *)

\* C1: whatever remediation calls fail (non-200, malformed body, transport
\* error, exception), no failure leaves get_llm_suggestion: the only crash
\* is the clone's; each failed call is reported as 'No suggestion
\* available.' in its own finding's block; and a finished report holds a
\* whole block for every finding.
C1_Isolation ==
    /\ pc = "crashed" => cloneResult = "OtherError"
    /\ \A k \in 1..i :
        Block(k)[4].kind \in {"LLMError", "LLMException"} => Block(k)[5] = Unavailable
    /\ (pc \in {"loop", "done"} /\ Failed(resp)) => Last(log) = Unavailable
    /\ (pc = "done" /\ HeaderIndex > 0) =>
            /\ i = Len(results.results)
            /\ Len(ReportBody) = 5 * Len(results.results)

\* a run whose first remediation call failed and whose second one succeeded
C1_Witness ==
    /\ pc = "done"
    /\ i = 2
    /\ Block(1)[4].kind = "LLMException"
    /\ Block(1)[5] = Unavailable
    /\ Block(2)[4].kind = "LLMGenerated"
    /\ Block(2)[5] # Unavailable

\* C2: the report holds one block per finding handled, the k-th block being
\* the k-th finding of the tool's output, nothing else in between, and all
\* findings once the run is done, whatever the remediation calls did.
C2_OrderPreserved ==
    HeaderIndex > 0 =>
        /\ \A k \in 1..i :
            /\ SubSeq(Block(k), 1, 3) = FindingLines(results.results[k])
            /\ Block(k)[5].kind = "Suggestion"
        /\ Len(ReportBody) = 5 * i + (IF pc = "llm_wait" THEN 3 ELSE 0)
        /\ pc = "llm_wait" =>
            SubSeq(ReportBody, 5 * i + 1, 5 * i + 3)
                = FindingLines(results.results[i + 1])
        /\ pc = "done" => i = Len(results.results)

C2_Witness ==
    /\ pc = "done"
    /\ results.results = <<FindingB, FindingA>>
    /\ i = 2
    /\ Failed(resp)

\* C3: a failed scan (unsupported tool, executable missing, output file
\* missing or not decodable) does not end in the 'no findings detected'
\* outcome.
C3_FailedScanDistinct ==
    (entry = "main" /\ pc = "done" /\ ScanFailed)
        => Last(log).kind # "NoFindingsDetected"

\* C4: when a successful scan's document has an empty 'results' list, the
\* log carries an explicit 'no findings' line.
C4_EmptyFindingsExplicit ==
    (entry = "main" /\ pc = "done" /\ via = "loaded"
        /\ "results" \in results.keys /\ results.results = <<>>)
        => \E k \in 1..Len(log) : log[k].kind \in {"NoResults", "NoFindingsDetected"}

\* C5: for a tool name outside {bandit, semgrep}, subprocess.run is never
\* called and run_sast_tool returns None by its unsupported-tool return.
C5_UnsupportedSpawnsNothing ==
    tool \notin {"bandit", "semgrep"} =>
        /\ spawned = 0
        /\ via \in {"none", "unsupported"}
        /\ results = NoneValue

C5_Witness ==
    /\ tool = "flake8"
    /\ pc = "returned"
    /\ via = "unsupported"

\* C6: once the child process ran and exited, with any exit code,
\* run_sast_tool returns by its json.load exactly when the output file is
\* there and decodes, what it returns then is that file's decoded content,
\* and it returns None otherwise.
C6_ExitStatusIgnored ==
    (via # "none" /\ env.installed /\ tool \in {"bandit", "semgrep"}) =>
        /\ via = "loaded" <=> (env.art.exists /\ env.art.wellformed)
        /\ via = "loaded" => results = env.art.doc
        /\ via # "loaded" => results = NoneValue

C6_Witness ==
    /\ via = "loaded"
    /\ env.exit = 1
    /\ results.results = <<FindingA>>

\* C7: clone_from is called at most once, and once when the clone step is
\* over; after a failed clone the run is over with no subprocess, no
\* request, no finding handled and nothing logged but the clone's lines;
\* and main's scan only runs after a clone that succeeded.
C7_CloneFailureTerminal ==
    /\ cloneAttempts <= 1
    /\ cloneResult # "none" => cloneAttempts = 1
    /\ cloneResult \in {"GitCommandError", "OtherError"} =>
            /\ pc \in {"done", "crashed"}
            /\ spawned = 0
            /\ via = "none"
            /\ requests = <<>>
            /\ i = 0
            /\ log = CloneLines(cloneResult)
    /\ (entry = "main" /\ (via # "none" \/ pc \in {"sast", "loop", "llm_wait"}))
            => cloneResult = "ok"

C7_Witness ==
    /\ cloneResult = "GitCommandError"
    /\ pc = "done"
    /\ cloneAttempts = 1

\* C8: a remediation call that was issued returns, and the run finishes.
C8_RemediationCallReturns == (pc = "llm_wait") ~> (pc = "done")

\* C9: every response of POST /generate is a 200 carrying the prompt
\* followed by the backend's continuation, a 503, or a 500; it is a 503
\* exactly when the backend was unavailable (connection failure, timeout);
\* and a backend answer with a status other than 200 gives a 500.
C9_ThreeWayClassification ==
    svcPc = "responded" =>
        LET unavailable == svcOutcome.kind \in {"ConnectionError", "Timeout"}
        IN  /\ svcResp.status \in {200, 500, 503}
            /\ svcResp.status = 200 =>
                    /\ svcOutcome.kind = "http"
                    /\ svcOutcome.status = 200
                    /\ svcResp.generated_text = svcPrompt \o svcOutcome.body.text
            /\ svcResp.status = 503 <=> unavailable
            /\ (svcOutcome.kind = "http" /\ svcOutcome.status # 200)
                    => svcResp.status = 500

\* C10 as stated: a 2xx answer with a well-formed body carrying
\* generated_text t is reported as t; 'No suggestion available.' is reported
\* only for a non-2xx answer, a malformed body or a transport failure; one
\* request per finding.
C10_AsStated ==
    /\ (pc \in {"loop", "done"} /\ resp.kind # "none") =>
        LET twoxx == resp.kind = "http" /\ resp.status >= 200 /\ resp.status < 300
        IN  /\ (twoxx /\ resp.body.form = "text") => Last(log).t = resp.body.text
            /\ Last(log) = Unavailable =>
                    \/ ~twoxx
                    \/ resp.body.form # "text"
    /\ Len(requests) = i + (IF pc = "llm_wait" THEN 1 ELSE 0)

\* C10, amended: the finding is reported as strip(t) exactly when the answer
\* has status 200 and a JSON object body whose generated_text is a string t
\* that is not empty once stripped, and as 'No suggestion available.' in
\* every other case; one request is posted per finding, in the findings'
\* order, and none again after a failure.
C10_OutcomeByResponse ==
    /\ (pc \in {"loop", "done"} /\ resp.kind # "none") =>
        Last(log) = Line("Suggestion", "", "",
                         IF /\ resp.kind = "http"
                            /\ resp.status = 200
                            /\ resp.body.form = "text"
                            /\ Strip(resp.body.text) # <<>>
                         THEN Strip(resp.body.text)
                         ELSE NoSuggestion)
    /\ Len(requests) = i + (IF pc = "llm_wait" THEN 1 ELSE 0)
    /\ \A k \in 1..Len(requests) : requests[k] = Prompt(results.results[k])

\* a 200 answer whose text is stripped before it is reported
C10_Witness ==
    /\ pc = "done"
    /\ i = 2
    /\ resp.kind = "http"
    /\ resp.status = 200
    /\ resp.body.form = "text"
    /\ resp.body.text = <<" ", "x">>
    /\ Last(log).t = <<"x">>

====
